---- MODULE Spec2Model ----
(***************************************************************************)
(* AutoDNS: service discovery from the Docker container inventory          *)
(* (discoverTraefik, discover), the hostname -> address table built by     *)
(* main, the DNS query handler, and the start-up order of main and the     *)
(* two listener goroutines.                                                *)
(*                                                                         *)
(* The program modelled is the latest revision of main.go, the one with    *)
(* discoverTraefik and the com.autodns.ip override (src/unnamed/part_001). *)
(* src/main.go and src/unnamed/part_000 are earlier revisions of the same  *)
(* file: the first has neither the override nor the proxy route, the       *)
(* second reads com.autodns.hostname alone.                                *)
(***************************************************************************)
EXTENDS Integers, Sequences, FiniteSets, TLC

(***************************************************************************)
(* Bounds of the model.                                                    *)
(***************************************************************************)
\* Largest inventory discover is applied to on its own (SpecDiscover).
MaxContainers == 2
\* Largest inventory of a run of the whole program (Spec).
MaxServed == 1

(***************************************************************************)
(* Strings of the program.  TLC strings are atomic, so every text          *)
(* operation of the code (strings.Split, the regular expression,           *)
(* net.ParseIP, net.IP.String) is an operator given by its value on each   *)
(* text of the model's universe.                                           *)
(***************************************************************************)
HostnameKey == "com.autodns.hostname"
IPKey == "com.autodns.ip"
NetworkKey == "com.autodns.network"
RouterKeyA == "traefik.http.routers.web.rule"
RouterKeyB == "traefik.http.routers.blog-1.rule"

\* A map with no key (an empty Go map, or a map lacking every key of interest).
NoEntries == [k \in {} |-> ""]

\* net.IP is a byte slice: <<>> is the nil IP, four bytes stand for an IPv4
\* address (To4() # nil), sixteen for a genuine IPv6 address.
NilIP == <<>>

\* net.ParseIP: the address written by a text, nil when the text is none.
ParseIP(s) ==
    CASE s = "172.17.0.5" -> <<172, 17, 0, 5>>
      [] s = "172.18.0.7" -> <<172, 18, 0, 7>>
      [] s = "172.17.0.2" -> <<172, 17, 0, 2>>
      [] s = "172.18.0.2" -> <<172, 18, 0, 2>>
      [] s = "10.0.0.9" -> <<10, 0, 0, 9>>
      [] s = "10.0.0.2" -> <<10, 0, 0, 2>>
      [] s = "::ffff:10.0.0.9" -> <<10, 0, 0, 9>>
      [] s = "fe80::1" -> <<254, 128, 0, 0, 0, 0, 0, 0, 0, 0, 0, 0, 0, 0, 0, 1>>
      [] OTHER -> NilIP

\* net.IP.String: "<nil>" for the nil IP, dotted decimal for an IPv4 address
\* (also one parsed from the IPv4-mapped form), RFC 5952 text otherwise.
IPString(ip) ==
    CASE ip = NilIP -> "<nil>"
      [] ip = <<172, 17, 0, 5>> -> "172.17.0.5"
      [] ip = <<172, 18, 0, 7>> -> "172.18.0.7"
      [] ip = <<172, 17, 0, 2>> -> "172.17.0.2"
      [] ip = <<172, 18, 0, 2>> -> "172.18.0.2"
      [] ip = <<10, 0, 0, 9>> -> "10.0.0.9"
      [] ip = <<10, 0, 0, 2>> -> "10.0.0.2"
      [] OTHER -> "fe80::1"

\* strings.Split(image, ":")[0]: the image reference up to its first colon.
ImageName(image) ==
    CASE image = "traefik:v2" -> "traefik"
      [] image = "traefik" -> "traefik"
      [] image = "traefik-ee:v2" -> "traefik-ee"
      [] image = "nginx:latest" -> "nginx"
      [] OTHER -> image

\* The router name TraefikLabelRegex captures in a label key, "" when the key
\* is not traefik.http.routers.<name>.rule.
RouterOf(label) ==
    CASE label = RouterKeyA -> "web"
      [] label = RouterKeyB -> "blog-1"
      [] OTHER -> ""

\* The host TraefikLabelRegex captures in a label value, "" when the value
\* does not begin with a Host(...) call on a well-formed domain name.  The
\* quote ' in these texts stands for the backquote of the Traefik rule syntax,
\* which a TLA+ string cannot hold.
HostOf(value) ==
    CASE value = "Host('site.io')" -> "site.io"
      [] value = "Host('blog.io')" -> "blog.io"
      [] value = "Host('site.io') && PathPrefix('/api')" -> "site.io"
      [] OTHER -> ""

\* traefikRe.FindStringSubmatch(label + "=" + value): the full match, the
\* router name and the host, or no match at all.
FindStringSubmatch(label, value) ==
    IF RouterOf(label) # "" /\ HostOf(value) # ""
    THEN <<label \o "=Host('" \o HostOf(value) \o "')", RouterOf(label), HostOf(value)>>
    ELSE <<>>

(***************************************************************************)
(* The container inventory (container.Summary): Names[0], Image, Labels    *)
(* and NetworkSettings.Networks[n].IPAddress.                              *)
(***************************************************************************)
Entry(k, v) == [x \in {k} |-> v]

Merge(f, g) == [x \in (DOMAIN f) \cup (DOMAIN g) |-> IF x \in DOMAIN f THEN f[x] ELSE g[x]]

\* Name is Names[0]; the inventory gives each container its own.
Container(image, labels, networks) ==
    [Name |-> 0, Image |-> image, Labels |-> labels, Networks |-> networks]

\* com.autodns.network and the attachments, with the container's address on
\* bridge and on backend: attached to the default network, attached elsewhere
\* only, attached to the network the label names, not attached to the network
\* the label names, attached with an empty address.
NetCases(onBridge, onBackend) ==
    { <<NoEntries, Entry("bridge", onBridge)>>,
      <<NoEntries, Entry("backend", onBackend)>>,
      <<Entry(NetworkKey, "backend"), Merge(Entry("bridge", onBridge), Entry("backend", onBackend))>>,
      <<Entry(NetworkKey, "backend"), Entry("bridge", onBridge)>>,
      <<NoEntries, Entry("bridge", "")>> }

ServiceNets == NetCases("172.17.0.5", "172.18.0.7")
ProxyNets == NetCases("172.17.0.2", "172.18.0.2")
Attached == <<NoEntries, Entry("bridge", "172.17.0.5")>>
Detached == <<NoEntries, Entry("backend", "172.18.0.7")>>

RuleA == Entry(RouterKeyA, "Host('site.io')")
RuleAB == Merge(RuleA, Entry(RouterKeyB, "Host('blog.io')"))

\* Containers that name their hostname themselves.
ExplicitContainers ==
    { Container("nginx:latest", Merge(Entry(HostnameKey, "app.local"), Merge(ip, n[1])), n[2]) :
        ip \in {NoEntries, Entry(IPKey, "10.0.0.9"), Entry(IPKey, "bad")}, n \in ServiceNets }
    \cup
    { Container("nginx:latest", Merge(Entry(HostnameKey, "app.local"), Merge(x, Attached[1])), Attached[2]) :
        x \in {Entry(IPKey, ""), Entry(IPKey, "fe80::1"), Entry(IPKey, "::ffff:10.0.0.9"), RuleA} }
    \cup
    { Container("nginx:latest", Entry(HostnameKey, "site.io"), Attached[2]) }

\* Containers whose hostname can only come from a Traefik router rule.
RoutedContainers ==
    { Container("nginx:latest", Merge(h[1], Merge(h[2], Merge(ip, n[1]))), n[2]) :
        h \in { <<NoEntries, RuleA>>, <<NoEntries, RuleAB>>, <<Entry(HostnameKey, ""), RuleA>> },
        ip \in {NoEntries, Entry(IPKey, "10.0.0.9")},
        n \in {Attached, Detached} }

\* Containers with no hostname at all.
PlainContainers ==
    { Container("nginx:latest", l, Attached[2]) :
        l \in { NoEntries,
                Entry(RouterKeyA, "PathPrefix('/api')"),
                Entry("traefik.enable", "Host('site.io')") } }

\* Containers running the reverse proxy, or an image named like it.
ProxyContainers ==
    { Container("traefik:v2", Merge(ip, n[1]), n[2]) :
        ip \in {NoEntries, Entry(IPKey, "10.0.0.2"), Entry(IPKey, "bad")}, n \in ProxyNets }
    \cup
    { Container(image, NoEntries, Entry("bridge", "172.17.0.2")) : image \in {"traefik", "traefik-ee:v2"} }
    \cup
    { Container("traefik:v2", RuleA, Entry("bridge", "172.17.0.2")) }

ContainerPool == ExplicitContainers \cup RoutedContainers \cup PlainContainers \cup ProxyContainers

(***************************************************************************)
(* discoverTraefik and discover.                                           *)
(***************************************************************************)
HasLabel(c, k) == k \in DOMAIN c.Labels

Service(name, hostname, ip) ==
    [ContainerName |-> name, HostnameLabel |-> hostname, IPAddress |-> ip]

\* Label com.autodns.network, bridge when the label is missing.
SelectedNetwork(c) == IF HasLabel(c, NetworkKey) THEN c.Labels[NetworkKey] ELSE "bridge"

\* discoverTraefik giving up at the first traefik container it cannot resolve.
RECURSIVE DiscoverTraefikFirstOnly(_, _)
DiscoverTraefikFirstOnly(cs, i) ==
    IF i > Len(cs) THEN <<>>
    ELSE LET c == cs[i]
             network == SelectedNetwork(c)
         IN  IF ImageName(c.Image) # "traefik" THEN DiscoverTraefikFirstOnly(cs, i + 1)
             ELSE IF HasLabel(c, IPKey) /\ c.Labels[IPKey] # ""
             THEN <<Service(c.Name, "traefik", ParseIP(c.Labels[IPKey]))>>
             ELSE IF network \notin DOMAIN c.Networks THEN <<>>
             ELSE IF c.Networks[network] = "" THEN <<>>
             ELSE <<Service(c.Name, "traefik", ParseIP(c.Networks[network]))>>

\* discoverTraefik's loop from container i on: <<>> is the nil pointer, a
\* one-element sequence a pointer to a Service.
RECURSIVE DiscoverTraefikFrom(_, _)
DiscoverTraefikFrom(cs, i) ==
    IF i > Len(cs) THEN <<>>
    ELSE LET c == cs[i]
             network == SelectedNetwork(c)
         IN  IF ImageName(c.Image) # "traefik" THEN DiscoverTraefikFrom(cs, i + 1)
             ELSE IF HasLabel(c, IPKey) /\ c.Labels[IPKey] # ""
             THEN <<Service(c.Name, "traefik", ParseIP(c.Labels[IPKey]))>>
             ELSE IF network \notin DOMAIN c.Networks THEN DiscoverTraefikFrom(cs, i + 1)
             ELSE IF c.Networks[network] = "" THEN DiscoverTraefikFrom(cs, i + 1)
             ELSE <<Service(c.Name, "traefik", ParseIP(c.Networks[network]))>>

DiscoverTraefik(cs) == DiscoverTraefikFrom(cs, 1)

\* The orders in which a range over a Go map may visit its keys.
RangeOrders(m) ==
    { o \in [1..Cardinality(DOMAIN m) -> DOMAIN m] : \A k \in DOMAIN m : \E i \in DOMAIN o : o[i] = k }

\* The inner loop only taking the hostname of a match, as before services
\* were routed to the proxy.
RECURSIVE ScanLabelsUnrouted(_, _, _, _)
ScanLabelsUnrouted(c, order, tIP, st) ==
    IF order = <<>> THEN st
    ELSE LET matches == FindStringSubmatch(Head(order), c.Labels[Head(order)])
         IN  IF Len(matches) # 3 THEN ScanLabelsUnrouted(c, Tail(order), tIP, st)
             ELSE ScanLabelsUnrouted(c, Tail(order), tIP, [st EXCEPT !.hostname = matches[3]])

\* discover's inner loop over the labels still to visit; st holds hostname,
\* discovered and routed.  Its continue statements continue this loop.
RECURSIVE ScanLabels(_, _, _, _)
ScanLabels(c, order, tIP, st) ==
    IF order = <<>> THEN st
    ELSE LET label == Head(order)
             matches == FindStringSubmatch(label, c.Labels[label])
         IN  IF Len(matches) # 3 THEN ScanLabels(c, Tail(order), tIP, st)
             ELSE IF tIP = <<>>
             THEN ScanLabels(c, Tail(order), tIP, [st EXCEPT !.hostname = matches[3]])
             ELSE ScanLabels(c, Tail(order), tIP,
                    [hostname |-> matches[3],
                     discovered |-> Append(st.discovered, Service(c.Name, matches[3], tIP[1].IPAddress)),
                     routed |-> TRUE])

\* SelfResolve without the override: the address always comes from the
\* selected network.
SelfResolveNoOverride(c, hostname, disc) ==
    LET network == SelectedNetwork(c)
    IN  IF network \notin DOMAIN c.Networks THEN disc
        ELSE Append(disc, Service(c.Name, hostname, ParseIP(c.Networks[network])))

\* SelfResolve without the attachment check: a missing attachment reads as
\* the zero EndpointSettings, whose address is empty.
SelfResolveNoNetworkCheck(c, hostname, disc) ==
    LET network == SelectedNetwork(c)
    IN  IF HasLabel(c, IPKey) /\ c.Labels[IPKey] # ""
        THEN Append(disc, Service(c.Name, hostname, ParseIP(c.Labels[IPKey])))
        ELSE IF network \notin DOMAIN c.Networks
        THEN Append(disc, Service(c.Name, hostname, ParseIP("")))
        ELSE Append(disc, Service(c.Name, hostname, ParseIP(c.Networks[network])))

\* The rest of an iteration for a container that was not routed to the
\* proxy and has a hostname: the override, else the selected network.
SelfResolve(c, hostname, disc) ==
    LET network == SelectedNetwork(c)
    IN  IF HasLabel(c, IPKey) /\ c.Labels[IPKey] # ""
        THEN Append(disc, Service(c.Name, hostname, ParseIP(c.Labels[IPKey])))
        ELSE IF network \notin DOMAIN c.Networks THEN disc
        ELSE Append(disc, Service(c.Name, hostname, ParseIP(c.Networks[network])))

\* An iteration that scans the Traefik labels whether or not
\* com.autodns.hostname is set.
DiscoverContainerAlwaysScan(c, order, tIP, disc) ==
    LET hostname == IF HasLabel(c, HostnameKey) THEN c.Labels[HostnameKey] ELSE ""
        st == ScanLabels(c, order, tIP, [hostname |-> hostname, discovered |-> disc, routed |-> FALSE])
    IN  IF st.routed THEN st.discovered
        ELSE IF st.hostname = "" THEN st.discovered
        ELSE SelfResolve(c, st.hostname, st.discovered)

\* One iteration of discover's loop over the containers: discovered after
\* the iteration for container c, its labels visited in the given order.
DiscoverContainer(c, order, tIP, disc) ==
    LET ok == HasLabel(c, HostnameKey)
        hostname == IF ok THEN c.Labels[HostnameKey] ELSE ""
        st0 == [hostname |-> hostname, discovered |-> disc, routed |-> FALSE]
        st == IF ~ok \/ hostname = "" THEN ScanLabels(c, order, tIP, st0) ELSE st0
    IN  IF st.routed THEN st.discovered
        ELSE IF st.hostname = "" THEN st.discovered
        ELSE SelfResolve(c, st.hostname, st.discovered)

\* main's loop over the services: a later service overwrites an earlier one
\* of the same hostname.
RECURSIVE BuildServiceMap(_, _)
BuildServiceMap(services, m) ==
    IF services = <<>> THEN m
    ELSE BuildServiceMap(Tail(services),
            Merge(Entry(Head(services).HostnameLabel \o ".", IPString(Head(services).IPAddress)), m))

(***************************************************************************)
(* DNS messages (dns.Msg) and the query handler.                           *)
(***************************************************************************)
\* new(dns.Msg): every field at its zero value.
NewMsg ==
    [Id |-> 0, Response |-> FALSE, Rcode |-> 0, Authoritative |-> FALSE,
     RecursionAvailable |-> FALSE, Compress |-> FALSE, Question |-> <<>>, Answer |-> <<>>]

\* (*dns.Msg).SetReply as the program uses it: the reply takes the request's
\* id and first question, is marked a response and gets RcodeSuccess.
SetReply(m, request) ==
    [m EXCEPT !.Id = request.Id,
              !.Response = TRUE,
              !.Rcode = 0,
              !.Question = IF Len(request.Question) > 0 THEN <<request.Question[1]>> ELSE m.Question]

MakeResponse(h, ip) ==
    LET records == << [Name |-> h, Rrtype |-> "A", Class |-> "IN", Ttl |-> 3600, A |-> ip] >>
    IN  [SetReply(NewMsg, NewMsg) EXCEPT !.Authoritative = TRUE,
                                         !.RecursionAvailable = TRUE,
                                         !.Compress = FALSE,
                                         !.Answer = records]

\* The handler writing the response of makeResponse as it is, without
\* SetReply(r).
HandlerNoSetReply(m, r) ==
    IF Len(r.Question) = 0 THEN <<>>
    ELSE IF r.Question[1] \notin DOMAIN m THEN <<SetReply(NewMsg, r)>>
    ELSE <<MakeResponse(r.Question[1], ParseIP(m[r.Question[1]]))>>

\* The function main registers with dns.HandleFunc: the messages it writes
\* for request r, none for a request without a question.
Handler(m, r) ==
    IF Len(r.Question) = 0 THEN <<>>
    ELSE LET name == r.Question[1]
         IN  IF name \notin DOMAIN m THEN <<SetReply(NewMsg, r)>>
             ELSE <<SetReply(MakeResponse(name, ParseIP(m[name])), r)>>

\* What a dns.Server writes while no handler is registered for the root
\* zone: the default ServeMux refuses the query.
Refused(r) == <<[SetReply(NewMsg, r) EXCEPT !.Rcode = 5]>>

QueryIds == {7, 4660}
QueryNames == {"app.local.", "site.io.", "other.local."}
Questions ==
    {<<>>} \cup { <<n>> : n \in QueryNames \cup {"app.local"} }
           \cup { <<"other.local.", "app.local.">>, <<"site.io.", "other.local.">> }
Queries == [Id : QueryIds, Question : Questions]

(***************************************************************************)
(* The program: main, and the two goroutines running ListenAndServe.       *)
(***************************************************************************)
VARIABLES
    containers,   \* what the Docker API lists
    pc,           \* the statement main is at
    traefikIP,    \* discover: the result of discoverTraefik
    idx,          \* discover: containers already visited
    discovered,   \* discover: the services found so far; main's services
    serviceMap,   \* main: the lookup table
    registered,   \* whether dns.HandleFunc has run
    listener,     \* per transport: "none", "spawned" or "serving"
    exited,       \* the process has ended through log.Fatal
    query,        \* the last request a listener accepted (a sequence of <= 1)
    reply         \* what was written back for it (a sequence of <= 1)

vars == <<containers, pc, traefikIP, idx, discovered, serviceMap, registered,
          listener, exited, query, reply>>

Transports == {"udp", "tcp"}

Init ==
    /\ containers = <<>>
    /\ pc = "list"
    /\ traefikIP = <<>>
    /\ idx = 0
    /\ discovered = <<>>
    /\ serviceMap = NoEntries
    /\ registered = FALSE
    /\ listener = [t \in Transports |-> "none"]
    /\ exited = FALSE
    /\ query = <<>>
    /\ reply = <<>>

\* The Docker API reports one more container, c, of at most max; its name
\* is its position in the list.
ListContainer(c, max) ==
    /\ pc = "list" /\ ~exited /\ Len(containers) < max
    /\ containers' = Append(containers, [c EXCEPT !.Name = Len(containers) + 1])
    /\ UNCHANGED <<pc, traefikIP, idx, discovered, serviceMap, registered, listener, exited, query, reply>>

\* discover up to its loop: getContainers returned the list and
\* discoverTraefik ran on it.
DiscoverBegin ==
    /\ pc = "list" /\ ~exited
    /\ traefikIP' = DiscoverTraefik(containers)
    /\ pc' = "loop"
    /\ UNCHANGED <<containers, idx, discovered, serviceMap, registered, listener, exited, query, reply>>

\* getContainers failed: log.Fatal ends the process.
GetContainersFail ==
    /\ pc = "list" /\ ~exited
    /\ exited' = TRUE
    /\ UNCHANGED <<containers, pc, traefikIP, idx, discovered, serviceMap, registered, listener, query, reply>>

\* One iteration of discover's loop over the containers.
DiscoverStep ==
    /\ pc = "loop" /\ ~exited /\ idx < Len(containers)
    /\ \E order \in RangeOrders(containers[idx + 1].Labels) :
          discovered' = DiscoverContainer(containers[idx + 1], order, traefikIP, discovered)
    /\ idx' = idx + 1
    /\ UNCHANGED <<containers, pc, traefikIP, serviceMap, registered, listener, exited, query, reply>>

\* discover returns, main goes on to its go statements.
DiscoverReturn ==
    /\ pc = "loop" /\ ~exited /\ idx = Len(containers)
    /\ pc' = "go_udp"
    /\ UNCHANGED <<containers, traefikIP, idx, discovered, serviceMap, registered, listener, exited, query, reply>>

GoUDP ==
    /\ pc = "go_udp" /\ ~exited
    /\ listener' = [listener EXCEPT !["udp"] = "spawned"]
    /\ pc' = "go_tcp"
    /\ UNCHANGED <<containers, traefikIP, idx, discovered, serviceMap, registered, exited, query, reply>>

GoTCP ==
    /\ pc = "go_tcp" /\ ~exited
    /\ listener' = [listener EXCEPT !["tcp"] = "spawned"]
    /\ pc' = "build_map"
    /\ UNCHANGED <<containers, traefikIP, idx, discovered, serviceMap, registered, exited, query, reply>>

BuildMap ==
    /\ pc = "build_map" /\ ~exited
    /\ serviceMap' = BuildServiceMap(discovered, NoEntries)
    /\ pc' = "handle_func"
    /\ UNCHANGED <<containers, traefikIP, idx, discovered, registered, listener, exited, query, reply>>

HandleFunc ==
    /\ pc = "handle_func" /\ ~exited
    /\ registered' = TRUE
    /\ pc' = "select"
    /\ UNCHANGED <<containers, traefikIP, idx, discovered, serviceMap, listener, exited, query, reply>>

\* ListenAndServe of a spawned goroutine binds its socket and starts to serve.
Serve(t) ==
    /\ listener[t] = "spawned" /\ ~exited
    /\ listener' = [listener EXCEPT ![t] = "serving"]
    /\ UNCHANGED <<containers, pc, traefikIP, idx, discovered, serviceMap, registered, exited, query, reply>>

\* ListenAndServe returns an error: log.Fatal ends the process.
ListenFail(t) ==
    /\ listener[t] = "spawned" /\ ~exited
    /\ exited' = TRUE
    /\ UNCHANGED <<containers, pc, traefikIP, idx, discovered, serviceMap, registered, listener, query, reply>>

\* A serving listener accepts request r and writes back what the registered
\* handler, or the server itself when there is none, produces.
Query(t, r) ==
    /\ listener[t] = "serving" /\ ~exited
    /\ query' = <<r>>
    /\ reply' = IF registered THEN Handler(serviceMap, r) ELSE Refused(r)
    /\ UNCHANGED <<containers, pc, traefikIP, idx, discovered, serviceMap, registered, listener, exited>>

\* main alone, on an inventory of at most max containers.
Main(max) ==
    \/ \E c \in ContainerPool : ListContainer(c, max)
    \/ DiscoverBegin
    \/ GetContainersFail
    \/ DiscoverStep
    \/ DiscoverReturn
    \/ GoUDP
    \/ GoTCP
    \/ BuildMap
    \/ HandleFunc

\* The whole program.
Next ==
    \/ Main(MaxServed)
    \/ \E t \in Transports : Serve(t)
    \/ \E t \in Transports : ListenFail(t)
    \/ \E t \in Transports, r \in Queries : Query(t, r)

\* discover and the table on their own: main with its goroutines never
\* scheduled.
NextDiscover == Main(MaxContainers)

Spec == Init /\ [][Next]_vars

SpecDiscover == Init /\ [][NextDiscover]_vars

(***************************************************************************)
(* Vocabulary of the properties.                                           *)
(***************************************************************************)
\* discover has returned.
Returned == pc \notin {"list", "loop"}

\* main has built serviceMap.
TableBuilt == pc \in {"handle_func", "select"}

Indices == 1..Len(containers)

\* The positions in discovered of the services of container i.
ServicesOf(i) == { k \in 1..Len(discovered) : discovered[k].ContainerName = i }

\* com.autodns.hostname is present and non-empty.
UsableHostname(c) == HasLabel(c, HostnameKey) /\ c.Labels[HostnameKey] # ""

\* com.autodns.ip is present and non-empty.
HasOverride(c) == HasLabel(c, IPKey) /\ c.Labels[IPKey] # ""

\* The hosts of the well-formed Traefik rule labels of c.
RuleHosts(c) ==
    { HostOf(c.Labels[l]) : l \in { k \in DOMAIN c.Labels : Len(FindStringSubmatch(k, c.Labels[k])) = 3 } }

\* c has no usable hostname of its own and a Traefik rule names one.
Inferred(c) == ~UsableHostname(c) /\ RuleHosts(c) # {}

\* c is attached to the network it selects.
OnSelectedNetwork(c) == SelectedNetwork(c) \in DOMAIN c.Networks

\* The position of the last service registered under hostname h.
LastWith(h) ==
    CHOOSE k \in 1..Len(discovered) :
        /\ discovered[k].HostnameLabel = h
        /\ \A j \in (k + 1)..Len(discovered) : discovered[j].HostnameLabel # h

ToSet(seq) == { seq[k] : k \in DOMAIN seq }

\* A text that writes an IPv4 address.
IsIPv4Text(s) == Len(ParseIP(s)) = 4

(***************************************************************************)
(* C1.  When discoverTraefik yields none, the table holds no key for a     *)
(* hostname inferred from a Traefik rule label: a container without a      *)
(* usable com.autodns.hostname whose hostname comes from a rule            *)
(* contributes no entry, whatever its other labels and attachments.        *)
(***************************************************************************)
C1_NoProxyNoRoutedEntry ==
    (TableBuilt /\ traefikIP = <<>>) =>
        \A i \in Indices :
            Inferred(containers[i]) =>
                /\ ServicesOf(i) = {}
                /\ \A h \in RuleHosts(containers[i]) : (h \o ".") \notin DOMAIN serviceMap

(***************************************************************************)
(* C2.  With a proxy of address A discovered, a container without a usable *)
(* com.autodns.hostname and with a well-formed rule of host H gets a       *)
(* service binding H to A, and the table entry of H is A.                  *)
(***************************************************************************)
\* Every rule host of an inferred container has a service of that container
\* at the proxy's address, and the container has no service at another one.
RoutedToProxy ==
    (Returned /\ traefikIP # <<>>) =>
        \A i \in Indices :
            Inferred(containers[i]) =>
                /\ \A h \in RuleHosts(containers[i]) :
                      \E k \in ServicesOf(i) :
                          /\ discovered[k].HostnameLabel = h
                          /\ discovered[k].IPAddress = traefikIP[1].IPAddress
                /\ \A k \in ServicesOf(i) :
                      /\ discovered[k].HostnameLabel \in RuleHosts(containers[i])
                      /\ discovered[k].IPAddress = traefikIP[1].IPAddress

\* The claim as stated: the table entry of every such host is the proxy's
\* address.
C2_TableEntryIsProxy ==
    /\ RoutedToProxy
    /\ (TableBuilt /\ traefikIP # <<>>) =>
          \A i \in Indices :
              Inferred(containers[i]) =>
                  \A h \in RuleHosts(containers[i]) :
                      /\ (h \o ".") \in DOMAIN serviceMap
                      /\ serviceMap[h \o "."] = IPString(traefikIP[1].IPAddress)

\* Amended: the service binds H to A, and the table entry of H is the address
\* of the last service registered under H, which is A unless a later
\* container registers H itself.
C2_RoutedToProxyLastWins ==
    /\ RoutedToProxy
    /\ (TableBuilt /\ traefikIP # <<>>) =>
          \A i \in Indices :
              Inferred(containers[i]) =>
                  \A h \in RuleHosts(containers[i]) :
                      /\ (h \o ".") \in DOMAIN serviceMap
                      /\ serviceMap[h \o "."] = IPString(discovered[LastWith(h)].IPAddress)
                      /\ (discovered[LastWith(h)].ContainerName <= i
                            => serviceMap[h \o "."] = IPString(traefikIP[1].IPAddress))

\* A container routed to a proxy whose address differs from every address of
\* its own, with the table built.
C2_Witness ==
    /\ TableBuilt /\ traefikIP # <<>>
    /\ \E i \in Indices :
          /\ Inferred(containers[i])
          /\ ServicesOf(i) # {}
          /\ OnSelectedNetwork(containers[i])
          /\ ParseIP(containers[i].Networks[SelectedNetwork(containers[i])]) # traefikIP[1].IPAddress
          /\ traefikIP[1].IPAddress # NilIP
          /\ \E h \in RuleHosts(containers[i]) : serviceMap[h \o "."] = IPString(traefikIP[1].IPAddress)

(***************************************************************************)
(* C3.  A container with com.autodns.ip set to a valid address has its     *)
(* hostname registered at exactly that address, whatever its attachments   *)
(* and its com.autodns.network, whether the hostname comes from            *)
(* com.autodns.hostname or from a Traefik rule label.                      *)
(***************************************************************************)
ValidOverride(c) == HasOverride(c) /\ ParseIP(c.Labels[IPKey]) # NilIP

C3_OverrideAlwaysUsed ==
    Returned =>
        \A i \in Indices :
            (ValidOverride(containers[i]) /\ (UsableHostname(containers[i]) \/ Inferred(containers[i]))) =>
                /\ ServicesOf(i) # {}
                /\ \A k \in ServicesOf(i) :
                      discovered[k].IPAddress = ParseIP(containers[i].Labels[IPKey])

\* Amended: the override is used for a hostname that comes from
\* com.autodns.hostname; a hostname inferred from a rule and routed through a
\* discovered proxy is registered at the proxy's address instead.
C3_OverrideUsedWhenSelfResolved ==
    Returned =>
        \A i \in Indices :
            ValidOverride(containers[i]) =>
                /\ UsableHostname(containers[i]) =>
                      /\ Cardinality(ServicesOf(i)) = 1
                      /\ \A k \in ServicesOf(i) :
                            /\ discovered[k].HostnameLabel = containers[i].Labels[HostnameKey]
                            /\ discovered[k].IPAddress = ParseIP(containers[i].Labels[IPKey])
                /\ (Inferred(containers[i]) /\ traefikIP # <<>>) =>
                      /\ ServicesOf(i) # {}
                      /\ \A k \in ServicesOf(i) : discovered[k].IPAddress = traefikIP[1].IPAddress

\* A container with its own hostname and a valid override that is not
\* attached to the network it selects, registered at the override.
C3_Witness ==
    /\ Returned
    /\ \E i \in Indices :
          /\ UsableHostname(containers[i])
          /\ ValidOverride(containers[i])
          /\ ~OnSelectedNetwork(containers[i])
          /\ \E k \in ServicesOf(i) : discovered[k].IPAddress = ParseIP(containers[i].Labels[IPKey])

(***************************************************************************)
(* C4.  A container with no attachment on its selected network             *)
(* (com.autodns.network, or bridge without that label) contributes no      *)
(* entry, for every combination of its other labels.                       *)
(***************************************************************************)
C4_DetachedNeverRegistered ==
    Returned =>
        \A i \in Indices : ~OnSelectedNetwork(containers[i]) => ServicesOf(i) = {}

\* Amended: such a container contributes no entry unless it carries a
\* non-empty com.autodns.ip, or its hostname is inferred from a Traefik rule
\* and a proxy was discovered.
C4_DetachedWithoutOverrideSkipped ==
    Returned =>
        \A i \in Indices :
            ( /\ ~OnSelectedNetwork(containers[i])
              /\ ~HasOverride(containers[i])
              /\ ~(Inferred(containers[i]) /\ traefikIP # <<>>) )
            => ServicesOf(i) = {}

\* Both detached containers that could have been registered are there: one
\* with a hostname of its own, and, with no proxy found, one with a rule.
C4_Witness ==
    /\ Returned
    /\ traefikIP = <<>>
    /\ \E i, j \in Indices :
          /\ UsableHostname(containers[i]) /\ Inferred(containers[j])
          /\ \A n \in {i, j} :
                /\ ~OnSelectedNetwork(containers[n])
                /\ ~HasOverride(containers[n])
                /\ ServicesOf(n) = {}

(***************************************************************************)
(* C5.  A container with a non-empty com.autodns.hostname is registered    *)
(* under exactly that value and under no host of its Traefik rule labels;  *)
(* an empty com.autodns.hostname counts as absent, so Traefik inference    *)
(* applies.                                                                *)
(***************************************************************************)
C5_ExplicitHostnamePrecedence ==
    Returned =>
        \A i \in Indices :
            LET c == containers[i]
            IN  /\ UsableHostname(c) =>
                      /\ Cardinality(ServicesOf(i)) <= 1
                      /\ \A k \in ServicesOf(i) : discovered[k].HostnameLabel = c.Labels[HostnameKey]
                      /\ (HasOverride(c) \/ OnSelectedNetwork(c)) => ServicesOf(i) # {}
                /\ (HasLabel(c, HostnameKey) /\ c.Labels[HostnameKey] = "" /\ RuleHosts(c) # {}) =>
                      /\ \A k \in ServicesOf(i) : discovered[k].HostnameLabel \in RuleHosts(c)
                      /\ traefikIP # <<>> =>
                            { discovered[k].HostnameLabel : k \in ServicesOf(i) } = RuleHosts(c)

\* A container with both a hostname of its own and a rule, registered, next
\* to a proxy.
C5_Witness ==
    /\ Returned
    /\ traefikIP # <<>>
    /\ \E i \in Indices :
          /\ UsableHostname(containers[i])
          /\ RuleHosts(containers[i]) # {}
          /\ \E k \in ServicesOf(i) : discovered[k].HostnameLabel = "app.local"

(***************************************************************************)
(* C7.  Every entry of the table maps its hostname to a valid IPv4         *)
(* address: an unparsable override, an empty attachment address or an      *)
(* unparsable proxy override never yields an entry.                        *)
(***************************************************************************)
C7_EveryEntryIPv4 ==
    TableBuilt => \A k \in DOMAIN serviceMap : IsIPv4Text(serviceMap[k])

(***************************************************************************)
(* C9.  discover emits at most one Service per container: of several       *)
(* matching rule labels only the first is used, and the set of services    *)
(* does not depend on the order in which the labels are visited.           *)
(***************************************************************************)
C9_OneServicePerContainer ==
    Returned =>
        \A i \in Indices :
            /\ Cardinality(ServicesOf(i)) <= 1
            /\ \A o1, o2 \in RangeOrders(containers[i].Labels) :
                  ToSet(DiscoverContainer(containers[i], o1, traefikIP, <<>>))
                    = ToSet(DiscoverContainer(containers[i], o2, traefikIP, <<>>))

(***************************************************************************)
(* C10.  discoverTraefik decides on the first container whose image name   *)
(* is traefik: its override when set, else its address on its selected     *)
(* network, and none when that network has no attachment or an empty       *)
(* address, whatever later traefik containers there are.                   *)
(***************************************************************************)
IsProxyImage(c) == ImageName(c.Image) = "traefik"

\* c has an override, or a non-empty address on its selected network.
Resolvable(c) ==
    \/ HasOverride(c)
    \/ (OnSelectedNetwork(c) /\ c.Networks[SelectedNetwork(c)] # "")

\* The address discoverTraefik takes from a resolvable container.
ProxyAddress(c) ==
    IF HasOverride(c) THEN ParseIP(c.Labels[IPKey])
    ELSE ParseIP(c.Networks[SelectedNetwork(c)])

\* The result that rests on the first container of cs satisfying P.
DecidedByFirst(cs, P(_)) ==
    LET S == { i \in 1..Len(cs) : P(cs[i]) }
        f == CHOOSE i \in S : \A j \in S : i <= j
    IN  IF S = {} THEN <<>>
        ELSE IF Resolvable(cs[f]) THEN <<Service(cs[f].Name, "traefik", ProxyAddress(cs[f]))>>
        ELSE <<>>

C10_FirstProxyImageDecides ==
    pc # "list" => traefikIP = DecidedByFirst(containers, IsProxyImage)

\* Amended: it decides on the first traefik container that has an override or
\* a non-empty address on its selected network, and yields none only when
\* there is no such container.
IsResolvableProxy(c) == IsProxyImage(c) /\ Resolvable(c)

C10_FirstResolvableProxyDecides ==
    pc # "list" => traefikIP = DecidedByFirst(containers, IsResolvableProxy)

\* The first traefik container is not resolvable and the second one is
\* returned.
C10_Witness ==
    /\ pc # "list"
    /\ Len(containers) >= 2
    /\ IsProxyImage(containers[1]) /\ ~Resolvable(containers[1])
    /\ traefikIP # <<>>
    /\ traefikIP[1].ContainerName = 2

(***************************************************************************)
(* C6.  A query with a question, handled by the registered handler: when   *)
(* the first question's name is a key of the table the reply holds exactly *)
(* one A record, of the query name, TTL 3600 and the stored address; when  *)
(* it is not, the reply holds no answer; either way the reply carries the  *)
(* query's id and is marked a response.                                    *)
(***************************************************************************)
\* What the claim asks of the replies written for request q over table m.
AnswersFromTable(q, replies, m) ==
    Len(q.Question) >= 1 =>
        /\ Len(replies) = 1
        /\ replies[1].Id = q.Id
        /\ replies[1].Response
        /\ IF q.Question[1] \in DOMAIN m
           THEN /\ Len(replies[1].Answer) = 1
                /\ replies[1].Answer[1].Rrtype = "A"
                /\ replies[1].Answer[1].Name = q.Question[1]
                /\ replies[1].Answer[1].Ttl = 3600
                /\ IPString(replies[1].Answer[1].A) = m[q.Question[1]]
           ELSE replies[1].Answer = <<>>

\* Every step in which a listener answers a request while the handler is
\* registered answers it from the table.
C6_HandlerAnswersFromTable ==
    [][(registered /\ <<query, reply>>' # <<query, reply>>)
          => AnswersFromTable(query'[1], reply', serviceMap)]_vars

\* A hit on a name whose stored address is a real one, and the id mirrored.
C6_Witness ==
    /\ registered
    /\ query # <<>> /\ reply # <<>>
    /\ Len(query[1].Question) = 2
    /\ query[1].Question[1] \in DOMAIN serviceMap
    /\ reply[1].Id = 4660
    /\ Len(reply[1].Answer) = 1
    /\ reply[1].Answer[1].A # NilIP

(***************************************************************************)
(* C8.  Discovery, the table and the registration of the handler are       *)
(* complete before either listener accepts a query: in no interleaving of  *)
(* main and the listener goroutines is a query accepted and answered       *)
(* before that.                                                            *)
(***************************************************************************)
C8_TableBeforeListeners ==
    /\ \A t \in Transports : listener[t] = "serving" => (TableBuilt /\ registered)
    /\ query # <<>> => (TableBuilt /\ registered)

====
